---------------------------- MODULE Spec2Model ----------------------------
(***************************************************************************)
(* Belief propagation (sum-product message passing) on discrete factor     *)
(* graphs: labelled tensors (Distribution), the factorization-string       *)
(* parser, the graph container (PGM) and the message cache (Messages).     *)
(*                                                                         *)
(* A Python str is a sequence of one-character strings.  A numpy array is  *)
(* a record [shape, val] whose val maps every index tuple of the shape to  *)
(* its entry; a rank-0 array has shape <<>> and the single index <<>>.     *)
(* Probabilities are exact non-negative integers (tables scaled by a       *)
(* common factor); the quotient of a normalisation is a reduced fraction,  *)
(* or NaN / Inf where numpy's division yields them.                        *)
(***************************************************************************)
EXTENDS Integers, Sequences, FiniteSets, TLC

VARIABLES model_string, pgm, distributions, messages, runs, last

vars == <<model_string, pgm, distributions, messages, runs, last>>

\* Python's None, and the err of a call that raised nothing
None == [None |-> TRUE]

NoError == "NoError"

(***************************************************************************)
(* Python built-ins used by the source                                     *)
(***************************************************************************)

\* s[i..j] with Python's slicing tolerance for empty ranges
Slice(s, i, j) == IF i > j THEN <<>> ELSE SubSeq(s, i, j)

\* the elements of a sequence
Range(s) == {s[i] : i \in DOMAIN s}

\* str.split(sep) for a one-character separator: never empty, keeps empty pieces
RECURSIVE Split(_, _)
Split(s, sep) ==
    IF \A i \in DOMAIN s : s[i] # sep
    THEN <<s>>
    ELSE LET i == CHOOSE k \in DOMAIN s :
                      s[k] = sep /\ \A m \in 1..(k-1) : s[m] # sep
         IN  <<Slice(s, 1, i-1)>> \o Split(Slice(s, i+1, Len(s)), sep)

(***************************************************************************)
(* Graph Model Parser                                                      *)
(***************************************************************************)

\* _parse_term without its assert
_parse_term_unchecked(term) ==
    LET term_variables == Slice(term, 2, Len(term) - 1)
    IN  IF "|" \in Range(term_variables)
        THEN LET parts == Split(term_variables, "|")
             IN  IF Len(parts) # 2
                 THEN [err |-> "ValueError", var |-> <<>>, given |-> <<>>]
                 ELSE [err   |-> NoError,
                       var   |-> Split(parts[1], ","),
                       given |-> Split(parts[2], ",")]
        ELSE [err   |-> NoError,
              var   |-> Split(term_variables, ","),
              given |-> <<>>]

\* _parse_term: "(a|b,c)" -> var = <<a>>, given = <<b, c>>; the assert and
\* the two-way unpacking of split('|') are the two ways it raises
_parse_term(term) ==
    IF ~(term[1] = "(" /\ term[Len(term)] = ")")
    THEN [err |-> "AssertionError", var |-> <<>>, given |-> <<>>]
    ELSE LET term_variables == Slice(term, 2, Len(term) - 1)
         IN  IF "|" \in Range(term_variables)
             THEN LET parts == Split(term_variables, "|")
                  IN  IF Len(parts) # 2
                      THEN [err |-> "ValueError", var |-> <<>>, given |-> <<>>]
                      ELSE [err   |-> NoError,
                            var   |-> Split(parts[1], ","),
                            given |-> Split(parts[2], ",")]
             ELSE [err   |-> NoError,
                   var   |-> Split(term_variables, ","),
                   given |-> <<>>]

\* ParsedTerm(term, var_name, given)
ParsedTerm(term, var_name, given) ==
    [term |-> term, var_name |-> var_name, given |-> given]

\* _parse_model_string_into_terms: split on "p", drop empty pieces, parse each
\* piece in order; the first piece that raises ends the comprehension
_parse_model_string_into_terms(s) ==
    LET pieces == SelectSeq(Split(s, "p"), LAMBDA t : t # <<>>)
        parsed == [i \in DOMAIN pieces |-> _parse_term(pieces[i])]
        bad    == {i \in DOMAIN pieces : parsed[i].err # NoError}
    IN  IF bad # {}
        THEN [err   |-> parsed[CHOOSE i \in bad : \A j \in bad : i <= j].err,
              terms |-> <<>>]
        ELSE [err   |-> NoError,
              terms |-> [i \in DOMAIN pieces |->
                            ParsedTerm(<<"p">> \o pieces[i],
                                       parsed[i].var, parsed[i].given)]]

(***************************************************************************)
(* Factor graph nodes.  A node reference is [kind, key]: a Factor object   *)
(* is identified by its position in the factor list (two Factors may carry *)
(* the same name), a Variable object by its key in the variables dict.     *)
(***************************************************************************)

\* Node.__init__ through Variable
Variable(name) == [kind |-> "Variable", name |-> name, neighbors |-> <<>>]

\* Factor.__init__
Factor(name) ==
    [kind |-> "Factor", name |-> name, neighbors |-> <<>>, data |-> None]

VariableRef(name) == [kind |-> "Variable", key |-> name]

FactorRef(i) == [kind |-> "Factor", key |-> i]

\* Variable.is_valid_neighbor / Factor.is_valid_neighbor
is_valid_neighbor(node, neighbor) ==
    IF node.kind = "Variable" THEN neighbor.kind = "Factor"
                              ELSE neighbor.kind = "Variable"

\* Node.add_neighbor, after its assert passed
add_neighbor(node, neighbor) ==
    [node EXCEPT !.neighbors = Append(@, neighbor)]

\* `name in variables` and variables[name] of the insertion-ordered dict
DictHas(variables, name) == \E i \in DOMAIN variables : variables[i].name = name

DictIndex(variables, name) ==
    CHOOSE i \in DOMAIN variables : variables[i].name = name

\* first loop of parse_model_into_variables_and_factors: one Variable per
\* name met in some term's var_name, in order of first occurrence
RECURSIVE CollectNames(_, _)
CollectNames(variables, names) ==
    IF names = <<>> THEN variables
    ELSE CollectNames(
             IF DictHas(variables, Head(names)) THEN variables
             ELSE Append(variables, Variable(Head(names))),
             Tail(names))

RECURSIVE CollectVariables(_, _)
CollectVariables(variables, parsed_terms) ==
    IF parsed_terms = <<>> THEN variables
    ELSE CollectVariables(CollectNames(variables, Head(parsed_terms).var_name),
                          Tail(parsed_terms))

\* LinkNames without line 306: the Variable never learns of the Factor
RECURSIVE LinkNames_one_way(_, _, _)
LinkNames_one_way(st, self, all_var_names) ==
    IF st.err # NoError \/ all_var_names = <<>> THEN st
    ELSE IF ~DictHas(st.variables, Head(all_var_names))
    THEN [st EXCEPT !.err = "KeyError"]
    ELSE LinkNames_one_way(
           [st EXCEPT !.new_factor =
                        add_neighbor(@, VariableRef(Head(all_var_names)))],
           self, Tail(all_var_names))

\* inner loop of the second loop: link new_factor with the Variable of every
\* name of the term, in both directions; st = [err, new_factor, variables]
RECURSIVE LinkNames(_, _, _)
LinkNames(st, self, all_var_names) ==
    IF st.err # NoError \/ all_var_names = <<>> THEN st
    ELSE LET var_name == Head(all_var_names)
         IN  IF ~DictHas(st.variables, var_name)
             THEN [st EXCEPT !.err = "KeyError"]
             ELSE LET i == DictIndex(st.variables, var_name)
                      v == VariableRef(var_name)
                  IN  IF ~is_valid_neighbor(st.new_factor, v)
                         \/ ~is_valid_neighbor(st.variables[i], self)
                      THEN [st EXCEPT !.err = "AssertionError"]
                      ELSE LinkNames(
                             [err        |-> NoError,
                              new_factor |-> add_neighbor(st.new_factor, v),
                              variables  |-> [st.variables EXCEPT
                                                ![i] = add_neighbor(@, self)]],
                             self, Tail(all_var_names))

\* second loop: one Factor per term, in term order; g = [err, factors, variables]
RECURSIVE BuildFactors(_, _)
BuildFactors(g, parsed_terms) ==
    IF g.err # NoError \/ parsed_terms = <<>> THEN g
    ELSE LET parsed_term == Head(parsed_terms)
             linked == LinkNames([err        |-> NoError,
                                  new_factor |-> Factor(parsed_term.term),
                                  variables  |-> g.variables],
                                 FactorRef(Len(g.factors) + 1),
                                 parsed_term.var_name \o parsed_term.given)
         IN  IF linked.err # NoError
             THEN [g EXCEPT !.err = linked.err]
             ELSE BuildFactors([err       |-> NoError,
                                factors   |-> Append(g.factors, linked.new_factor),
                                variables |-> linked.variables],
                               Tail(parsed_terms))

\* parse_model_into_variables_and_factors
parse_model_into_variables_and_factors(s) ==
    LET parsed == _parse_model_string_into_terms(s)
    IN  IF parsed.err # NoError
        THEN [err |-> parsed.err, factors |-> <<>>, variables |-> <<>>]
        ELSE BuildFactors([err       |-> NoError,
                           factors   |-> <<>>,
                           variables |-> CollectVariables(<<>>, parsed.terms)],
                          parsed.terms)

\* PGM.__init__
PGM(factors, variables) == [_factors |-> factors, _variables |-> variables]

(***************************************************************************)
(* numpy arrays                                                            *)
(***************************************************************************)

\* the largest element of a sequence of naturals, 0 when it is empty
RECURSIVE MaxOf(_)
MaxOf(s) ==
    IF s = <<>> THEN 0
    ELSE LET m == MaxOf(Tail(s)) IN IF Head(s) > m THEN Head(s) ELSE m

\* the product of a sequence of naturals, 1 when it is empty
RECURSIVE ProdSeq(_)
ProdSeq(s) == IF s = <<>> THEN 1 ELSE Head(s) * ProdSeq(Tail(s))

\* the sum of the values of a function with a finite domain
RECURSIVE SumFn(_)
SumFn(f) ==
    IF DOMAIN f = {} THEN 0
    ELSE LET x == CHOOSE y \in DOMAIN f : TRUE
         IN  f[x] + SumFn([y \in DOMAIN f \ {x} |-> f[y]])

\* the elements of a set of naturals, ascending
RECURSIVE Ascending(_)
Ascending(S) ==
    IF S = {} THEN <<>>
    ELSE LET x == CHOOSE y \in S : \A z \in S : y <= z
         IN  <<x>> \o Ascending(S \ {x})

\* every index tuple of an array of this shape (1-based)
Indices(shape) ==
    {idx \in [DOMAIN shape -> 1..MaxOf(shape)] :
        \A k \in DOMAIN shape : idx[k] <= shape[k]}

Array(shape, val) == [shape |-> shape, val |-> val]

\* the position of an index tuple in row-major (C) order, from 1
LinearIndex(idx, shape) ==
    1 + SumFn([k \in DOMAIN shape |->
                 (idx[k] - 1) * ProdSeq(Slice(shape, k + 1, Len(shape)))])

\* np.array(nested list): the array of a shape from its entries in row-major order
NpArray(shape, flat) ==
    Array(shape, [idx \in Indices(shape) |-> flat[LinearIndex(idx, shape)]])

\* a.ravel(): the entries in row-major order
Ravel(a) ==
    [n \in 1..ProdSeq(a.shape) |->
        a.val[CHOOSE idx \in Indices(a.shape) : LinearIndex(idx, a.shape) = n]]

\* the axes of a shape that `dropped` leaves, ascending
KeptAxes(shape, dropped) == Ascending(DOMAIN shape \ dropped)

\* np.sum(a, axis=axes): axes is a set of positions; axis=() sums over nothing
NpSum(a, axes) ==
    LET kept  == KeptAxes(a.shape, axes)
        shape == [k \in DOMAIN kept |-> a.shape[kept[k]]]
    IN  Array(shape,
              [j \in Indices(shape) |->
                  SumFn([idx \in {i \in Indices(a.shape) :
                                     \A k \in DOMAIN kept : i[kept[k]] = j[k]}
                            |-> a.val[idx]])])

\* np.sum(a) over every axis: a number
NpSumAll(a) == SumFn(a.val)

\* np.squeeze(a): the axes of length 1 removed
NpSqueeze(a) ==
    LET kept  == KeptAxes(a.shape, {k \in DOMAIN a.shape : a.shape[k] = 1})
        shape == [k \in DOMAIN kept |-> a.shape[kept[k]]]
    IN  Array(shape,
              [j \in Indices(shape) |->
                  a.val[[k \in DOMAIN a.shape |->
                           IF a.shape[k] = 1 THEN 1
                           ELSE j[CHOOSE m \in DOMAIN kept : kept[m] = k]]]])

\* np.prod(list, axis=0) of a list of arrays: 1.0 for the empty list, the
\* elementwise product for arrays of one shape, ValueError (inhomogeneous
\* shape) otherwise
NpProd(list) ==
    IF list = <<>> THEN [err |-> NoError, val |-> Array(<<>>, [idx \in {<<>>} |-> 1])]
    ELSE IF \E k \in DOMAIN list : list[k].shape # list[1].shape
    THEN [err |-> "ValueError", val |-> None]
    ELSE [err |-> NoError,
          val |-> Array(list[1].shape,
                        [idx \in Indices(list[1].shape) |->
                            ProdSeq([k \in DOMAIN list |-> list[k].val[idx]])])]

RECURSIVE GCD(_, _)
GCD(x, y) == IF y = 0 THEN x ELSE GCD(y, x % y)

\* numpy's nan (0/0) and inf (x/0), written as the fractions they come from
NaN == <<0, 0>>

Inf == <<1, 0>>

\* x / s in floating point, kept exact: a reduced fraction <<n, d>>, and
\* nan or inf for a zero divisor
Div(x, s) ==
    IF s = 0 THEN (IF x = 0 THEN NaN ELSE Inf)
    ELSE <<x \div GCD(x, s), s \div GCD(x, s)>>

\* a / number, elementwise
NpDivide(a, s) == Array(a.shape, [idx \in Indices(a.shape) |-> Div(a.val[idx], s)])

(***************************************************************************)
(* Labeled Tensor                                                          *)
(***************************************************************************)

\* Distribution.__init__
Distribution(probs, axes_labels) == [probs |-> probs, axes_labels |-> axes_labels]

\* Distribution.get_axes: name -> axis; for a repeated name the last axis wins
HasAxis(d, name) == \E k \in DOMAIN d.axes_labels : d.axes_labels[k] = name

get_axes(d, name) ==
    CHOOSE k \in DOMAIN d.axes_labels :
        /\ d.axes_labels[k] = name
        /\ \A m \in DOMAIN d.axes_labels : d.axes_labels[m] = name => m <= k

\* get_other_axes_from returning the axis of the label itself
get_other_axes_from_own(d, axis_label) ==
    {k \in DOMAIN d.axes_labels : d.axes_labels[k] = axis_label}

\* Distribution.get_other_axes_from
get_other_axes_from(d, axis_label) ==
    {k \in DOMAIN d.axes_labels : d.axes_labels[k] # axis_label}

\* multiply taking the first axis of p_v_given_h for the one p_hi names
multiply_along_first_axis(p_v_given_h, p_hi) ==
    IF p_hi.probs.shape # <<>>
          /\ ProdSeq(p_hi.probs.shape) # p_v_given_h.probs.shape[1]
    THEN [err |-> "ValueError", val |-> None]
    ELSE [err |-> NoError,
          val |-> Distribution(
                    Array(p_v_given_h.probs.shape,
                          [idx \in Indices(p_v_given_h.probs.shape) |->
                              p_v_given_h.probs.val[idx]
                                * Ravel(p_hi.probs)[IF p_hi.probs.shape = <<>>
                                                    THEN 1 ELSE idx[1]]]),
                    p_v_given_h.axes_labels)]

\* multiply(p_v_given_h, p_hi): p_hi's first axis name is looked up in
\* p_v_given_h (KeyError), p_hi is reshaped to that axis (ValueError when the
\* sizes differ) unless it is rank 0, and the product is broadcast
multiply(p_v_given_h, p_hi) ==
    IF p_hi.axes_labels = <<>> THEN [err |-> "StopIteration", val |-> None]
    ELSE IF ~HasAxis(p_v_given_h, p_hi.axes_labels[1])
    THEN [err |-> "KeyError", val |-> None]
    ELSE LET axis  == get_axes(p_v_given_h, p_hi.axes_labels[1])
             shape == p_v_given_h.probs.shape
         IN  IF p_hi.probs.shape # <<>>
             THEN IF ProdSeq(p_hi.probs.shape) # shape[axis]
                  THEN [err |-> "ValueError", val |-> None]
                  ELSE [err |-> NoError,
                        val |-> Distribution(
                                  Array(shape,
                                        [idx \in Indices(shape) |->
                                            p_v_given_h.probs.val[idx]
                                              * Ravel(p_hi.probs)[idx[axis]]]),
                                  p_v_given_h.axes_labels)]
             ELSE [err |-> NoError,
                   val |-> Distribution(
                             Array(shape,
                                   [idx \in Indices(shape) |->
                                       p_v_given_h.probs.val[idx]
                                         * p_hi.probs.val[<<>>]]),
                             p_v_given_h.axes_labels)]

(***************************************************************************)
(* Graph Container                                                         *)
(***************************************************************************)

\* PGM.from_string
from_string(s) ==
    LET parsed == parse_model_into_variables_and_factors(s)
    IN  IF parsed.err # NoError
        THEN [err |-> parsed.err, val |-> None]
        ELSE [err |-> NoError, val |-> PGM(parsed.factors, parsed.variables)]

\* PGM.variable_from_name
variable_from_name(G, var_name) == G._variables[DictIndex(G._variables, var_name)]

\* the node object behind a reference
Node(G, ref) ==
    IF ref.kind = "Factor" THEN G._factors[ref.key]
    ELSE variable_from_name(G, ref.key)

\* set(v.name for v in factor.neighbors)
NeighborNames(G, node) == {Node(G, node.neighbors[k]).name : k \in DOMAIN node.neighbors}

\* the comparison of line 340 testing one direction only: a neighbour without
\* an axis
AxesDiffer_missing_only(G, factor, factor_data) ==
    NeighborNames(G, factor) \ Range(factor_data.axes_labels) # {}

\* set(factor_data.axes_labels) != set(v.name for v in factor.neighbors)
AxesDiffer(G, factor, factor_data) ==
    Range(factor_data.axes_labels) # NeighborNames(G, factor)

\* the size loop without its comparison
CheckDims_unchecked(var_dims, axes_labels, shape, k) ==
    [err |-> NoError, var_dims |-> var_dims]

\* the size loop of set_distributions over zip(axes_labels, probs.shape):
\* the first size seen for a name is recorded, a different one raises
RECURSIVE CheckDims(_, _, _, _)
CheckDims(var_dims, axes_labels, shape, k) ==
    IF k > Len(axes_labels) \/ k > Len(shape)
    THEN [err |-> NoError, var_dims |-> var_dims]
    ELSE LET var_name == axes_labels[k]
             dims == IF var_name \in DOMAIN var_dims THEN var_dims
                     ELSE var_name :> shape[k] @@ var_dims
         IN  IF dims[var_name] # shape[k]
             THEN [err |-> "ValueError: wrong size", var_dims |-> dims]
             ELSE CheckDims(dims, axes_labels, shape, k + 1)

\* the factor loop of set_distributions from factor k on;
\* st = [err, factors, var_dims].  A factor is bound only after both of its
\* checks passed, and the factors before a failing one stay bound
RECURSIVE BindFrom(_, _, _, _)
BindFrom(G, st, data, k) ==
    IF st.err # NoError \/ k > Len(st.factors) THEN st
    ELSE LET factor == st.factors[k]
         IN  IF factor.name \notin DOMAIN data
             THEN [st EXCEPT !.err = "KeyError"]
             ELSE LET factor_data == data[factor.name]
                  IN  IF AxesDiffer(G, factor, factor_data)
                      THEN [st EXCEPT !.err = "ValueError: missing axes"]
                      ELSE LET sized == CheckDims(st.var_dims,
                                                  factor_data.axes_labels,
                                                  factor_data.probs.shape, 1)
                           IN  IF sized.err # NoError
                               THEN [st EXCEPT !.err = sized.err]
                               ELSE BindFrom(G,
                                      [err      |-> NoError,
                                       factors  |-> [st.factors EXCEPT
                                                       ![k].data = factor_data],
                                       var_dims |-> sized.var_dims],
                                      data, k + 1)

\* set_distributions binding nothing unless every factor passes its checks
set_distributions_atomic(G, data) ==
    LET bound == BindFrom(G, [err      |-> NoError,
                              factors  |-> G._factors,
                              var_dims |-> <<>>],
                          data, 1)
    IN  [err |-> bound.err,
         val |-> IF bound.err # NoError THEN G ELSE PGM(bound.factors, G._variables)]

\* PGM.set_distributions: the graph afterwards and the exception, if any; both
\* of its exceptions are ValueErrors, told apart by their message
set_distributions(G, data) ==
    LET bound == BindFrom(G, [err      |-> NoError,
                              factors  |-> G._factors,
                              var_dims |-> <<>>],
                          data, 1)
    IN  [err |-> bound.err, val |-> PGM(bound.factors, G._variables)]

(***************************************************************************)
(* Message Cache / Propagation Engine.  An engine state st is              *)
(*   messages : the cache, (sender name, receiver name) -> array           *)
(*   err      : the exception being raised, None while running normally    *)
(*   ran      : the keys whose computing body was entered, in call order   *)
(*   stack    : the calls (variable, factor, method) whose body is running *)
(*   pgm      : the graph the nodes handed to the call belong to, as the   *)
(*              call leaves it                                             *)
(* Every operation takes an engine state and returns [st, val].  A call    *)
(* whose own body is still running and whose key is still uncached repeats *)
(* itself without end: Python ends it with RecursionError.                 *)
(***************************************************************************)

\* self.messages[message_name] = value
Store(cache, message_name, value) ==
    [k \in DOMAIN cache \cup {message_name} |->
        IF k = message_name THEN value ELSE cache[k]]

Raise(st, err) == [st |-> [st EXCEPT !.err = err], val |-> None]

\* the element of a one-element set; The({e(x) : x \in {d}}) is e at the value
\* of d, with d evaluated once
The(S) == CHOOSE y \in S : TRUE

\* `message_name not in self.messages`, always true
Cached_never(st, message_name) == FALSE

\* negation of `message_name not in self.messages`
Cached(st, message_name) == message_name \in DOMAIN st.messages

\* the engine state on entry to the computing body of a message
Entered(st, message_name, call) ==
    [st EXCEPT !.stack = @ \cup {call}, !.ran = Append(@, message_name)]

\* the value of the body handed back without being stored
Memoise_not_stored(st, message_name, r) ==
    IF r.st.err # NoError THEN r
    ELSE [st |-> [r.st EXCEPT !.stack = st.stack], val |-> r.val]

\* self.messages[message_name] = <value r of the body>, back in the caller st
Memoise(st, message_name, r) ==
    IF r.st.err # NoError THEN r
    ELSE [st  |-> [r.st EXCEPT !.messages = Store(@, message_name, r.val),
                               !.stack = st.stack],
          val |-> r.val]

RECURSIVE IncomingMessages(_, _, _, _, _)
RECURSIVE MultiplyIncoming(_, _, _, _, _, _)
RECURSIVE _variable_to_factor_messages(_, _, _, _)
RECURSIVE _factor_to_variable_messages(_, _, _, _)
RECURSIVE variable_to_factor_messages(_, _, _, _)
RECURSIVE factor_to_variable_message(_, _, _, _)

\* [self.factor_to_variable_message(f, variable) for f in factors], in order
IncomingMessages(G, st, variable, factors, acc) ==
    IF st.err # NoError THEN [st |-> st, val |-> None]
    ELSE IF factors = <<>> THEN [st |-> st, val |-> acc]
    ELSE The({IF r.st.err # NoError THEN r
              ELSE IncomingMessages(G, r.st, variable, Tail(factors),
                                    Append(acc, r.val)) :
              r \in {factor_to_variable_message(G, st, Head(factors), variable)}})

\* the product of the collected messages, or the error that ended collecting
ProductOf(incoming_messages) ==
    IF incoming_messages.st.err # NoError THEN incoming_messages
    ELSE The({IF product.err # NoError
              THEN Raise(incoming_messages.st, product.err)
              ELSE [st |-> incoming_messages.st, val |-> product.val] :
              product \in {NpProd(incoming_messages.val)}})

\* _variable_to_factor_messages passing on the first incoming message alone
_variable_to_factor_messages_first_only(G, st, variable, factor) ==
    The({IF incoming_messages.st.err # NoError THEN incoming_messages
         ELSE IF incoming_messages.val = <<>> THEN ProductOf(incoming_messages)
         ELSE [st |-> incoming_messages.st, val |-> incoming_messages.val[1]] :
         incoming_messages \in
           {IncomingMessages(G, st, variable,
                SelectSeq(Node(G, variable).neighbors,
                          LAMBDA neighbor_factor :
                              Node(G, neighbor_factor).name # Node(G, factor).name),
                <<>>)}})

\* Messages._variable_to_factor_messages
_variable_to_factor_messages(G, st, variable, factor) ==
    The({ProductOf(incoming_messages) :
         incoming_messages \in
           {IncomingMessages(G, st, variable,
                SelectSeq(Node(G, variable).neighbors,
                          LAMBDA neighbor_factor :
                              Node(G, neighbor_factor).name # Node(G, factor).name),
                <<>>)}})

\* the neighbour loop multiplying nothing in
MultiplyIncoming_skipped(G, st, factor, variable, neighbors, factor_dist) ==
    [st |-> st, val |-> factor_dist]

\* the neighbour loop multiplying in place: factor_dist.probs is the array of
\* factor.data, and every product is written into it
RECURSIVE MultiplyIncoming_in_place(_, _, _, _, _, _)
MultiplyIncoming_in_place(G, st, factor, variable, neighbors, factor_dist) ==
    IF st.err # NoError THEN [st |-> st, val |-> None]
    ELSE IF neighbors = <<>> THEN [st |-> st, val |-> factor_dist]
    ELSE IF Node(G, Head(neighbors)).name = Node(G, variable).name
    THEN MultiplyIncoming_in_place(G, st, factor, variable, Tail(neighbors),
                                   factor_dist)
    ELSE The({IF incoming_message.st.err # NoError THEN incoming_message
              ELSE The({IF product.err # NoError
                        THEN Raise(incoming_message.st, product.err)
                        ELSE MultiplyIncoming_in_place(
                                 G,
                                 [incoming_message.st EXCEPT
                                    !.pgm._factors[factor.key].data = product.val],
                                 factor, variable, Tail(neighbors), product.val) :
                        product \in
                          {multiply(factor_dist,
                                    Distribution(incoming_message.val,
                                                 <<Node(G, Head(neighbors)).name>>))}}) :
              incoming_message \in
                {variable_to_factor_messages(G, st, Head(neighbors), factor)}})

\* the neighbour loop of _factor_to_variable_messages
MultiplyIncoming(G, st, factor, variable, neighbors, factor_dist) ==
    IF st.err # NoError THEN [st |-> st, val |-> None]
    ELSE IF neighbors = <<>> THEN [st |-> st, val |-> factor_dist]
    ELSE IF Node(G, Head(neighbors)).name = Node(G, variable).name
    THEN MultiplyIncoming(G, st, factor, variable, Tail(neighbors), factor_dist)
    ELSE The({IF incoming_message.st.err # NoError THEN incoming_message
              ELSE The({IF product.err # NoError
                        THEN Raise(incoming_message.st, product.err)
                        ELSE MultiplyIncoming(G, incoming_message.st, factor,
                                              variable, Tail(neighbors),
                                              product.val) :
                        product \in
                          {multiply(factor_dist,
                                    Distribution(incoming_message.val,
                                                 <<Node(G, Head(neighbors)).name>>))}}) :
              incoming_message \in
                {variable_to_factor_messages(G, st, Head(neighbors), factor)}})

\* Messages._factor_to_variable_messages
_factor_to_variable_messages(G, st, factor, variable) ==
    IF Node(G, factor).data = None THEN Raise(st, "AttributeError")
    ELSE The({IF factor_dist.st.err # NoError THEN factor_dist
              ELSE [st  |-> factor_dist.st,
                    val |-> NpSqueeze(NpSum(factor_dist.val.probs,
                                get_other_axes_from(Node(G, factor).data,
                                                    Node(G, variable).name)))] :
              factor_dist \in
                {MultiplyIncoming(G, st, factor, variable, Node(G, factor).neighbors,
                                  Distribution(Node(G, factor).data.probs,
                                               Node(G, factor).data.axes_labels))}})

\* Messages.variable_to_factor_messages: the cached value if there is one, else
\* the body's value, stored under message_name
variable_to_factor_messages(G, st, variable, factor) ==
    LET message_name == <<Node(G, variable).name, Node(G, factor).name>>
        call == <<variable, factor, "variable_to_factor">>
    IN  IF st.err # NoError THEN [st |-> st, val |-> None]
        ELSE IF Cached(st, message_name)
        THEN [st |-> st, val |-> st.messages[message_name]]
        ELSE IF call \in st.stack THEN Raise(st, "RecursionError")
        ELSE The({Memoise(st, message_name, r) :
                  r \in {_variable_to_factor_messages(
                             G, Entered(st, message_name, call), variable, factor)}})

\* Messages.factor_to_variable_message, likewise
factor_to_variable_message(G, st, factor, variable) ==
    LET message_name == <<Node(G, factor).name, Node(G, variable).name>>
        call == <<variable, factor, "factor_to_variable">>
    IN  IF st.err # NoError THEN [st |-> st, val |-> None]
        ELSE IF Cached(st, message_name)
        THEN [st |-> st, val |-> st.messages[message_name]]
        ELSE IF call \in st.stack THEN Raise(st, "RecursionError")
        ELSE The({Memoise(st, message_name, r) :
                  r \in {_factor_to_variable_messages(
                             G, Entered(st, message_name, call), factor, variable)}})

\* marginal multiplying in place: the product is accumulated in the array of
\* the first incoming message, which is the cached one
marginal_in_place(G, st, variable) ==
    The({IF unnorm_p.st.err # NoError THEN unnorm_p
         ELSE [st  |-> [unnorm_p.st EXCEPT !.messages =
                          IF Node(G, variable).neighbors = <<>> THEN @
                          ELSE Store(@,
                                 <<Node(G, Node(G, variable).neighbors[1]).name,
                                   Node(G, variable).name>>,
                                 unnorm_p.val)],
               val |-> NpDivide(unnorm_p.val, NpSumAll(unnorm_p.val))] :
         unnorm_p \in
           {ProductOf(IncomingMessages(G, st, variable,
                                       Node(G, variable).neighbors, <<>>))}})

\* marginal without the division by the sum
marginal_unnormalised(G, st, variable) ==
    The({IF unnorm_p.st.err # NoError THEN unnorm_p
         ELSE [st  |-> unnorm_p.st, val |-> NpDivide(unnorm_p.val, 1)] :
         unnorm_p \in
           {ProductOf(IncomingMessages(G, st, variable,
                                       Node(G, variable).neighbors, <<>>))}})

\* Messages.marginal
marginal(G, st, variable) ==
    The({IF unnorm_p.st.err # NoError THEN unnorm_p
         ELSE [st  |-> unnorm_p.st,
               val |-> NpDivide(unnorm_p.val, NpSumAll(unnorm_p.val))] :
         unnorm_p \in
           {ProductOf(IncomingMessages(G, st, variable,
                                       Node(G, variable).neighbors, <<>>))}})

\* every node of the graph in sweep order, pgm._factors + list(pgm._variables.values())
SweepNodes(G) ==
    [i \in DOMAIN G._factors |-> FactorRef(i)]
      \o [i \in DOMAIN G._variables |-> VariableRef(G._variables[i].name)]

\* reversed(list)
Reversed(s) == [i \in DOMAIN s |-> s[Len(s) + 1 - i]]

\* the (node, neighbor) pairs the two nested loops of a sweep visit, in order
RECURSIVE SweepPairs(_, _)
SweepPairs(G, nodes) ==
    IF nodes = <<>> THEN <<>>
    ELSE [k \in DOMAIN Node(G, Head(nodes)).neighbors |->
              <<Head(nodes), Node(G, Head(nodes)).neighbors[k]>>]
           \o SweepPairs(G, Tail(nodes))

\* the loop body of forward / backward over the pairs still to visit
RECURSIVE Sweep(_, _, _, _)
Sweep(G, st, pairs, processed_nodes) ==
    IF st.err # NoError \/ pairs = <<>> THEN [st |-> st, val |-> None]
    ELSE IF <<Node(G, Head(pairs)[1]).name, Node(G, Head(pairs)[2]).name>>
               \in processed_nodes
    THEN Sweep(G, st, Tail(pairs), processed_nodes)
    ELSE The({Sweep(G, r.st, Tail(pairs),
                    processed_nodes
                      \cup {<<Node(G, Head(pairs)[1]).name,
                              Node(G, Head(pairs)[2]).name>>}) :
              r \in {IF Head(pairs)[1].kind = "Variable"
                     THEN variable_to_factor_messages(G, st, Head(pairs)[1],
                                                      Head(pairs)[2])
                     ELSE factor_to_variable_message(G, st, Head(pairs)[1],
                                                     Head(pairs)[2])}})

\* forward looping over pgm._factors alone
forward_factors_only(G, st) ==
    Sweep(G, st, SweepPairs(G, [i \in DOMAIN G._factors |-> FactorRef(i)]), {})

\* Messages.forward
forward(G, st) == Sweep(G, st, SweepPairs(G, SweepNodes(G)), {})

\* Messages.backward
backward(G, st) == Sweep(G, st, SweepPairs(G, Reversed(SweepNodes(G))), {})

\* the marginal loop of belief_propagation from variable k on
RECURSIVE AllMarginals(_, _, _, _)
AllMarginals(G, st, k, marginals) ==
    IF st.err # NoError THEN [st |-> st, val |-> None]
    ELSE IF k > Len(G._variables) THEN [st |-> st, val |-> marginals]
    ELSE The({IF r.st.err # NoError THEN r
              ELSE AllMarginals(G, r.st, k + 1,
                                Store(marginals, G._variables[k].name, r.val)) :
              r \in {marginal(G, st, VariableRef(G._variables[k].name))}})

\* belief_propagation without the two sweeps
belief_propagation_without_sweeps(G, st) == AllMarginals(G, st, 1, <<>>)

\* Messages.belief_propagation
belief_propagation(G, st) ==
    The({The({AllMarginals(G, back.st, 1, <<>>) :
              back \in {backward(G, swept.st)}}) :
         swept \in {forward(G, st)}})

(***************************************************************************)
(* Inputs: factorization strings and tensor tables                         *)
(***************************************************************************)

\* the most terms in a factorization string
MaxTerms == 2

a == <<"a">>
b == <<"b">>
c == <<"c">>

\* the terms the strings are written with: p(a), p(a,b), p(c|b), p(a,a)
TermLib ==
    { <<"p", "(", "a", ")">>,
      <<"p", "(", "a", ",", "b", ")">>,
      <<"p", "(", "c", "|", "b", ")">>,
      <<"p", "(", "a", ",", "a", ")">> }

RECURSIVE StringsOf(_)
StringsOf(n) ==
    IF n = 0 THEN {<<>>}
    ELSE {s \o t : s \in StringsOf(n - 1), t \in TermLib}

ModelStrings == UNION {StringsOf(n) : n \in 0..MaxTerms}

\* the tables the factors are bound to: a has 2 states, b has 3, c has 1 or 2;
\* the second table over a puts all its mass on the state of a that the first
\* table over a and b excludes
TensorLib ==
    { Distribution(NpArray(<<2>>, <<1, 3>>), <<a>>),
      Distribution(NpArray(<<2>>, <<0, 2>>), <<a>>),
      Distribution(NpArray(<<3, 2>>, <<1, 0, 2, 0, 1, 0>>), <<b, a>>),
      Distribution(NpArray(<<2, 3>>, <<2, 1, 0, 0, 1, 3>>), <<a, b>>),
      Distribution(NpArray(<<1, 3>>, <<2, 1, 3>>), <<c, b>>),
      Distribution(NpArray(<<3, 2>>, <<1, 0, 0, 2, 1, 1>>), <<b, c>>) }

\* the names of the factors of a graph
FactorNames(G) == {G._factors[i].name : i \in DOMAIN G._factors}

\* the mappings a caller hands to set_distributions: one table per factor name,
\* over the variables of some factor of that name
DataChoices(G) ==
    {data \in [FactorNames(G) -> TensorLib] :
        \A i \in DOMAIN G._factors :
            Range(data[G._factors[i].name].axes_labels)
                = NeighborNames(G, G._factors[i])}

(***************************************************************************)
(* The state machine: one graph, one Messages instance                     *)
(*   model_string  : the string handed to PGM.from_string                  *)
(*   pgm           : the PGM, None until from_string returned one          *)
(*   distributions : the mappings handed to set_distributions so far       *)
(*   messages      : Messages.messages                                     *)
(*   runs          : for every key, how often the body computing its       *)
(*                   message was entered since m was constructed           *)
(*   last          : the last call: op, arg, the exception it raised (err) *)
(*                   or the value it returned (ret)                        *)
(***************************************************************************)

Call(op, arg, err, ret) == [op |-> op, arg |-> arg, err |-> err, ret |-> ret]

\* model_string is written down and m = Messages() is constructed
Init ==
    /\ model_string \in ModelStrings
    /\ pgm = None
    /\ distributions = <<>>
    /\ messages = <<>>
    /\ runs = <<>>
    /\ last = Call("Messages", None, NoError, None)

\* pgm = PGM.from_string(model_string)
FromString ==
    /\ last.op = "Messages"
    /\ LET r == from_string(model_string)
       IN  /\ pgm' = r.val
           /\ last' = Call("from_string", model_string, r.err, r.val)
    /\ UNCHANGED <<model_string, distributions, messages, runs>>

\* pgm.set_distributions(data)
SetDistributions(data) ==
    /\ pgm # None
    /\ distributions = <<>>
    /\ distributions' = <<data>>
    /\ LET r == set_distributions(pgm, data)
       IN  /\ pgm' = r.val
           /\ last' = Call("set_distributions", data, r.err, None)
    /\ UNCHANGED <<model_string, messages, runs>>

\* the engine state a call starts from, and the state it leaves
Enter ==
    [messages |-> messages, err |-> NoError, ran |-> <<>>, stack |-> {}, pgm |-> pgm]

\* the most entries into the body of one message that are followed
MaxRuns == 2

\* the counts after the bodies of the keys were entered once more each
Tally(counts, keys) ==
    [k \in DOMAIN counts \cup Range(keys) |->
        (IF k \in DOMAIN counts THEN counts[k] ELSE 0)
          + Cardinality({i \in DOMAIN keys : keys[i] = k})]

Leave(op, arg, result) ==
    \E r \in {result} :
        /\ \E tally \in {Tally(runs, r.st.ran)} :
               /\ \A k \in DOMAIN tally : tally[k] <= MaxRuns
               /\ runs' = tally
        /\ messages' = r.st.messages
        /\ pgm' = r.st.pgm
        /\ last' = Call(op, arg, r.st.err,
                        IF r.st.err # NoError THEN None ELSE r.val)
        /\ UNCHANGED <<model_string, distributions>>

Ready == pgm # None /\ distributions # <<>>

VariableRefs(G) == {VariableRef(G._variables[i].name) : i \in DOMAIN G._variables}

FactorRefs(G) == {FactorRef(i) : i \in DOMAIN G._factors}

\* the (variable, factor) pairs joined by an edge
Edges(G) ==
    {e \in VariableRefs(G) \X FactorRefs(G) : e[1] \in Range(Node(G, e[2]).neighbors)}

\* m.marginal(pgm.variable_from_name(v))
Marginal(v) ==
    /\ Ready
    /\ v \in VariableRefs(pgm)
    /\ Leave("marginal", v, marginal(pgm, Enter, v))

\* m.variable_to_factor_messages(v, f)
VariableToFactor(v, f) ==
    /\ Ready
    /\ <<v, f>> \in Edges(pgm)
    /\ Leave("variable_to_factor_messages", <<v, f>>,
             variable_to_factor_messages(pgm, Enter, v, f))

\* m.factor_to_variable_message(f, v)
FactorToVariable(f, v) ==
    /\ Ready
    /\ <<v, f>> \in Edges(pgm)
    /\ Leave("factor_to_variable_message", <<f, v>>,
             factor_to_variable_message(pgm, Enter, f, v))

\* m.forward(pgm)
Forward == Ready /\ Leave("forward", None, forward(pgm, Enter))

\* m.backward(pgm)
Backward == Ready /\ Leave("backward", None, backward(pgm, Enter))

\* m.belief_propagation(pgm)
BeliefPropagation ==
    Ready /\ Leave("belief_propagation", None, belief_propagation(pgm, Enter))

Next ==
    \/ FromString
    \/ pgm # None /\ distributions = <<>>
         /\ \E data \in DataChoices(pgm) : SetDistributions(data)
    \/ pgm # None /\ \E v \in VariableRefs(pgm) : Marginal(v)
    \/ pgm # None /\ \E e \in Edges(pgm) : VariableToFactor(e[1], e[2])
    \/ pgm # None /\ \E e \in Edges(pgm) : FactorToVariable(e[2], e[1])
    \/ Forward
    \/ Backward
    \/ BeliefPropagation

Spec == Init /\ [][Next]_vars

(***************************************************************************)
(* What the properties speak of: the shape of the graph, the exact         *)
(* marginal of the joint the bound tables define, and the marginal         *)
(* re-derived by hand from the cache                                       *)
(***************************************************************************)

VarNames(G) == {G._variables[i].name : i \in DOMAIN G._variables}

\* the names of the variables joined to a variable of S by a chain of factors
RECURSIVE Reach(_, _)
Reach(G, S) ==
    LET T == S \cup UNION {NeighborNames(G, G._factors[i]) :
                             i \in {j \in DOMAIN G._factors :
                                      NeighborNames(G, G._factors[j]) \cap S # {}}}
    IN  IF T = S THEN S ELSE Reach(G, T)

NumEdges(G) == SumFn([i \in DOMAIN G._factors |-> Len(G._factors[i].neighbors)])

\* tree-shaped: connected and without a cycle (a doubled edge is a cycle)
IsTree(G) ==
    /\ G # None
    /\ G._variables # <<>>
    /\ Reach(G, {G._variables[1].name}) = VarNames(G)
    /\ NumEdges(G) = Len(G._factors) + Len(G._variables) - 1

\* every factor carries a table
Bound(G) == \A i \in DOMAIN G._factors : G._factors[i].data # None

\* the number of states of a variable, read from a bound table that has its axis
Card(G, name) ==
    LET i == CHOOSE j \in DOMAIN G._factors : HasAxis(G._factors[j].data, name)
    IN  G._factors[i].data.probs.shape[get_axes(G._factors[i].data, name)]

\* every joint assignment of a state to each variable
Assignments(G) ==
    LET most == CHOOSE m \in {Card(G, n) : n \in VarNames(G)} :
                    \A n \in VarNames(G) : Card(G, n) <= m
    IN  {asg \in [VarNames(G) -> 1..most] :
            \A n \in VarNames(G) : asg[n] <= Card(G, n)}

\* the product of all factor tables at one joint assignment
Joint(G, asg) ==
    ProdSeq([i \in DOMAIN G._factors |->
               G._factors[i].data.probs.val[
                   [k \in DOMAIN G._factors[i].data.axes_labels |->
                       asg[G._factors[i].data.axes_labels[k]]]]])

\* the joint summed over every variable but one, and over all of them
ExactUnnormalised(G, name) ==
    [x \in 1..Card(G, name) |->
        SumFn([asg \in {s \in Assignments(G) : s[name] = x} |-> Joint(G, asg)])]

Mass(G) == SumFn([asg \in Assignments(G) |-> Joint(G, asg)])

\* ret is the exact marginal: the joint summed over the other variables and
\* scaled to sum to 1, which takes a joint of non-zero mass
IsExactMarginal(G, name, ret) ==
    /\ Mass(G) # 0
    /\ Ravel(ret) = [x \in 1..Card(G, name) |->
                        Div(ExactUnnormalised(G, name)[x], Mass(G))]

\* a fraction that is a number >= 0 (neither nan nor inf)
IsProbability(q) == q[2] > 0 /\ q[1] >= 0

\* the fractions of a sequence add up to 1
SumsToOne(qs) ==
    /\ \A k \in DOMAIN qs : qs[k][2] # 0
    /\ SumFn([k \in DOMAIN qs |->
                qs[k][1] * ProdSeq([m \in DOMAIN qs |->
                                      IF m = k THEN 1 ELSE qs[m][2]])])
         = ProdSeq([m \in DOMAIN qs |-> qs[m][2]])

\* the cache holds the message of every neighbouring factor of the variable
IncomingCached(G, cache, name) ==
    \A k \in DOMAIN variable_from_name(G, name).neighbors :
        <<Node(G, variable_from_name(G, name).neighbors[k]).name, name>>
            \in DOMAIN cache

\* the cached factor-to-variable messages of a variable multiplied by hand
CachedProduct(G, cache, name) ==
    LET fs == variable_from_name(G, name).neighbors
        ms == [k \in DOMAIN fs |-> Ravel(cache[<<Node(G, fs[k]).name, name>>])]
    IN  [x \in DOMAIN ms[1] |-> ProdSeq([k \in DOMAIN ms |-> ms[k][x]])]

SumSeq(s) == SumFn(s)

\* ... and divided by their sum
CachedMarginal(G, cache, name) ==
    [x \in DOMAIN CachedProduct(G, cache, name) |->
        Div(CachedProduct(G, cache, name)[x], SumSeq(CachedProduct(G, cache, name)))]

MarginalReturned == last.op = "marginal" /\ last.err = NoError

BeliefPropagationReturned == last.op = "belief_propagation" /\ last.err = NoError

(***************************************************************************)
(* Properties                                                              *)
(***************************************************************************)

\* C1: on a tree-shaped graph with bound tables, marginal(v) is the exact
\* marginal of v: the product of all factor tables summed over every other
\* variable and normalised to sum to 1
C1_MarginalIsExact ==
    (MarginalReturned /\ IsTree(pgm) /\ Bound(pgm))
        => IsExactMarginal(pgm, last.arg.key, last.ret)

\* where the joint has mass, marginal(v) is the exact marginal
MarginalIsExactOnPositiveMass ==
    (MarginalReturned /\ IsTree(pgm) /\ Bound(pgm) /\ Mass(pgm) # 0)
        => IsExactMarginal(pgm, last.arg.key, last.ret)

\* C2: on a tree-shaped graph with non-negative bound tables every entry of
\* marginal(v) is non-negative and the entries sum to 1
C2_MarginalIsDistribution ==
    (MarginalReturned /\ IsTree(pgm) /\ Bound(pgm))
        => /\ \A k \in DOMAIN Ravel(last.ret) : IsProbability(Ravel(last.ret)[k])
           /\ SumsToOne(Ravel(last.ret))

\* where the joint has mass, marginal(v) is a distribution
MarginalIsDistributionOnPositiveMass ==
    (MarginalReturned /\ IsTree(pgm) /\ Bound(pgm) /\ Mass(pgm) # 0)
        => /\ \A k \in DOMAIN Ravel(last.ret) : IsProbability(Ravel(last.ret)[k])
           /\ SumsToOne(Ravel(last.ret))

\* C3: a second marginal(v), called right after marginal(v) returned, returns
\* the same value and leaves the cache, keys and values, as the first left it
C3_MarginalTwice ==
    MarginalReturned
        => \E again \in {marginal(pgm, Enter, last.arg)} :
               /\ again.st.err = NoError
               /\ again.val = last.ret
               /\ again.st.messages = messages

\* marginal(v) has returned on a tree for a variable with two neighbouring
\* factors, so that its product has more than one message to multiply
C3_Witness ==
    /\ MarginalReturned
    /\ IsTree(pgm)
    /\ Len(Node(pgm, last.arg).neighbors) >= 2
    /\ Mass(pgm) # 0

\* C4: after belief_propagation returned on a tree, the cache has an entry for
\* every adjacent pair in both directions
C4_EveryEdgeCachedBothWays ==
    (BeliefPropagationReturned /\ IsTree(pgm))
        => \A e \in Edges(pgm) :
               /\ <<Node(pgm, e[1]).name, Node(pgm, e[2]).name>> \in DOMAIN messages
               /\ <<Node(pgm, e[2]).name, Node(pgm, e[1]).name>> \in DOMAIN messages

\* belief_propagation has returned on a tree of at least two factors
C4_Witness ==
    /\ BeliefPropagationReturned
    /\ IsTree(pgm)
    /\ Len(pgm._factors) >= 2
    /\ Cardinality(DOMAIN messages) = 2 * NumEdges(pgm)

\* C5: belief_propagation returns a mapping whose keys are exactly the variable
\* names, and whose value at v is the elementwise product of the cached
\* messages (f, v) of v's neighbouring factors divided by its sum
C5_ReturnsCachedMarginals ==
    BeliefPropagationReturned
        => /\ DOMAIN last.ret = VarNames(pgm)
           /\ \A name \in VarNames(pgm) :
                  /\ IncomingCached(pgm, messages, name)
                  /\ Ravel(last.ret[name]) = CachedMarginal(pgm, messages, name)

\* belief_propagation has returned the marginals of a tree with several
\* variables, one of them with two neighbouring factors, and a joint with mass
C5_Witness ==
    /\ BeliefPropagationReturned
    /\ IsTree(pgm)
    /\ Len(pgm._variables) >= 2
    /\ \E i \in DOMAIN pgm._variables : Len(pgm._variables[i].neighbors) >= 2
    /\ Mass(pgm) # 0

\* the engine state the call of this step ended in, re-run from the state the
\* step started in
StepOutcome ==
    CASE last'.op = "marginal" ->
           marginal(pgm, Enter, last'.arg).st
      [] last'.op = "variable_to_factor_messages" ->
           variable_to_factor_messages(pgm, Enter, last'.arg[1], last'.arg[2]).st
      [] last'.op = "factor_to_variable_message" ->
           factor_to_variable_message(pgm, Enter, last'.arg[1], last'.arg[2]).st
      [] last'.op = "forward" -> forward(pgm, Enter).st
      [] last'.op = "backward" -> backward(pgm, Enter).st
      [] last'.op = "belief_propagation" -> belief_propagation(pgm, Enter).st
      [] OTHER -> Enter

\* C6: a key that is in the cache stays in it with the value it has, and its
\* computing body is not entered again, whatever operation comes next
C6_CacheIsWriteOnce ==
    [][\E outcome \in {StepOutcome} :
         \A k \in DOMAIN messages :
             /\ k \in DOMAIN messages'
             /\ messages'[k] = messages[k]
             /\ k \notin Range(outcome.ran)]_vars

\* marginal(v) has returned with a message of v to a neighbouring factor in the
\* cache: marginal(v) asks for no such message, so an earlier operation cached
\* it and this one ran on a cache that held entries
C6_Witness ==
    /\ MarginalReturned
    /\ IsTree(pgm)
    /\ \E k \in DOMAIN Node(pgm, last.arg).neighbors :
           <<last.arg.key, Node(pgm, Node(pgm, last.arg).neighbors[k]).name>>
               \in DOMAIN messages

\* C7: when the product of the incoming messages of v sums to zero, marginal(v)
\* ends in a DegenerateEvidence error and returns no value
C7_ZeroSumRaises ==
    (/\ last.op = "marginal"
     /\ IncomingCached(pgm, messages, last.arg.key)
     /\ SumSeq(CachedProduct(pgm, messages, last.arg.key)) = 0)
        => last.err = "DegenerateEvidence"

\* the identifiers written in a string of well-formed terms: its characters
\* other than the punctuation, each a name of its own
Identifiers(s) == {<<s[i]>> : i \in {j \in DOMAIN s : s[j] \notin {"p", "(", ")", "|", ","}}}

\* C8: parsing succeeds and creates exactly one Variable per distinct
\* identifier of the string, left or right of a bar
C8_OneVariablePerIdentifier ==
    last.op = "from_string"
        => /\ last.err = NoError
           /\ pgm # None
           /\ VarNames(pgm) = Identifiers(model_string)
           /\ Len(pgm._variables) = Cardinality(Identifiers(model_string))

\* no element occurs twice in a sequence
NoRepeats(s) == \A i, j \in DOMAIN s : s[i] = s[j] => i = j

\* C9: a Factor's neighbour list holds every Variable of its term exactly once,
\* and the Factor occurs exactly once in the neighbour list of each of them
C9_NeighboursOnce ==
    pgm # None
        => /\ \A i \in DOMAIN pgm._factors :
                  /\ NoRepeats(pgm._factors[i].neighbors)
                  /\ NeighborNames(pgm, pgm._factors[i])
                       = Identifiers(pgm._factors[i].name)
           /\ \A i \in DOMAIN pgm._variables : NoRepeats(pgm._variables[i].neighbors)

\* C10: a Variable's neighbours are Factors of the graph, a Factor's neighbours
\* are Variables of the graph, and f is a neighbour of v exactly if v is one of f
C10_BipartiteSymmetric ==
    pgm # None
        => /\ \A i \in DOMAIN pgm._variables :
                  \A k \in DOMAIN pgm._variables[i].neighbors :
                      /\ pgm._variables[i].neighbors[k].kind = "Factor"
                      /\ pgm._variables[i].neighbors[k].key \in DOMAIN pgm._factors
           /\ \A i \in DOMAIN pgm._factors :
                  \A k \in DOMAIN pgm._factors[i].neighbors :
                      /\ pgm._factors[i].neighbors[k].kind = "Variable"
                      /\ pgm._factors[i].neighbors[k].key \in VarNames(pgm)
           /\ \A i \in DOMAIN pgm._variables, j \in DOMAIN pgm._factors :
                  FactorRef(j) \in Range(pgm._variables[i].neighbors)
                      <=> VariableRef(pgm._variables[i].name)
                             \in Range(pgm._factors[j].neighbors)

\* a graph of two factors that share a variable
C10_Witness ==
    /\ pgm # None
    /\ Len(pgm._factors) >= 2
    /\ \E i \in DOMAIN pgm._variables :
           Cardinality(Range(pgm._variables[i].neighbors)) >= 2

\* the terms written in a string, left to right: each runs up to and including
\* its closing parenthesis
TermsOf(s) ==
    LET pieces == Split(s, ")")
    IN  [i \in 1..(Len(pieces) - 1) |-> pieces[i] \o <<")">>]

\* the names of the factors of a graph, in factor order
FactorNameList(G) == [i \in DOMAIN G._factors |-> G._factors[i].name]

\* C11: from_string returns a graph with exactly one Factor per term of the
\* input, in term order, each named by the text of its term; for the empty
\* string the graph has no factors and no variables
C11_OneFactorPerTerm ==
    last.op = "from_string"
        => /\ last.err = NoError
           /\ pgm # None
           /\ FactorNameList(pgm) = TermsOf(model_string)
           /\ model_string = <<>> => pgm._factors = <<>> /\ pgm._variables = <<>>

\* whenever from_string returns a graph, its factors are the terms in order
FactorsAreTermsWhenParsed ==
    (last.op = "from_string" /\ last.err = NoError)
        => /\ pgm # None
           /\ FactorNameList(pgm) = TermsOf(model_string)
           /\ model_string = <<>> => pgm._factors = <<>> /\ pgm._variables = <<>>

(***************************************************************************)
(* Parsing alone, over strings that may hold malformed terms               *)
(***************************************************************************)

\* the most terms in a string handed to the parser alone
MaxParseTerms == 2

\* the well-formed terms, and: a term without its closing parenthesis, a term
\* without its opening one, a bare p, a term with two bars
ParseTermLib ==
    TermLib \cup { <<"p", "(", "a">>,
                   <<"p", "a", ")">>,
                   <<"p">>,
                   <<"p", "(", "a", "|", "b", "|", "c", ")">> }

RECURSIVE ParseStringsOf(_)
ParseStringsOf(n) ==
    IF n = 0 THEN {<<>>}
    ELSE {s \o t : s \in ParseStringsOf(n - 1), t \in ParseTermLib}

ParseStrings == UNION {ParseStringsOf(n) : n \in 0..MaxParseTerms}

ParseInit ==
    /\ model_string \in ParseStrings
    /\ pgm = None
    /\ distributions = <<>>
    /\ messages = <<>>
    /\ runs = <<>>
    /\ last = Call("Messages", None, NoError, None)

ParseNext == FromString

ParseSpec == ParseInit /\ [][ParseNext]_vars

\* the terms of a string without their p: what stands between one p and the
\* next; a p with nothing behind it delimits no term
TermPieces(s) == SelectSeq(Split(s, "p"), LAMBDA t : t # <<>>)

\* a term that does not start with "(" or lacks its closing ")"
Malformed(piece) == piece[1] # "(" \/ piece[Len(piece)] # ")"

HasMalformedTerm(s) == \E i \in DOMAIN TermPieces(s) : Malformed(TermPieces(s)[i])

\* the exceptions _parse_term ends in
ParseErrors == {"AssertionError", "ValueError"}

\* C12: from_string on a string with a malformed term raises out of the
\* parser and returns no graph
C12_MalformedTermFails ==
    (last.op = "from_string" /\ HasMalformedTerm(model_string))
        => /\ last.err \in ParseErrors
           /\ last.ret = None
           /\ pgm = None

\* from_string was called on a well-formed term followed by a malformed one
C12_Witness ==
    /\ last.op = "from_string"
    /\ Len(TermPieces(model_string)) = 2
    /\ ~Malformed(TermPieces(model_string)[1])
    /\ Malformed(TermPieces(model_string)[2])

(***************************************************************************)
(* Binding alone, over mappings that may not fit the graph                 *)
(***************************************************************************)

\* graphs of one and of two factors
BindStrings ==
    { <<"p", "(", "a", ")">>,
      <<"p", "(", "a", ",", "b", ")">>,
      <<"p", "(", "a", ")", "p", "(", "a", ",", "b", ")">>,
      <<"p", "(", "a", ",", "b", ")", "p", "(", "a", ")">>,
      <<"p", "(", "a", ",", "b", ")", "p", "(", "c", "|", "b", ")">> }

\* the tables of TensorLib, and: a with 3 states, a column matrix over a alone,
\* b with 2 states, a table over b alone, a table with a third axis c
BindTensorLib ==
    TensorLib \cup
    { Distribution(NpArray(<<3>>, <<1, 1, 2>>), <<a>>),
      Distribution(NpArray(<<2, 1>>, <<1, 3>>), <<a>>),
      Distribution(NpArray(<<2, 2>>, <<1, 2, 3, 4>>), <<a, b>>),
      Distribution(NpArray(<<3>>, <<1, 2, 1>>), <<b>>),
      Distribution(NpArray(<<2, 3, 1>>, <<1, 2, 3, 4, 5, 6>>), <<a, b, c>>) }

\* the mappings handed to set_distributions: any table under any of the factor
\* names, some names possibly without an entry
BindChoices(G) ==
    UNION {[D -> BindTensorLib] : D \in SUBSET FactorNames(G)}

BindInit ==
    /\ model_string \in BindStrings
    /\ pgm = None
    /\ distributions = <<>>
    /\ messages = <<>>
    /\ runs = <<>>
    /\ last = Call("Messages", None, NoError, None)

BindNext ==
    \/ FromString
    \/ pgm # None /\ \E data \in BindChoices(pgm) : SetDistributions(data)

BindSpec == BindInit /\ [][BindNext]_vars

\* set_distributions came as far as factor i: every factor before it is bound
CameTo(i) == \A j \in 1..(i - 1) : pgm._factors[j].data # None

\* the entry the mapping of the last call holds for factor i
Entry(i) == last.arg[pgm._factors[i].name]

HasEntry(i) == pgm._factors[i].name \in DOMAIN last.arg

\* the labelled axes of a table: zip(axes_labels, probs.shape)
LabelledAxes(d) ==
    {k \in DOMAIN d.axes_labels : k \in DOMAIN d.probs.shape}

\* C13: a factor that carries a table has the table's label set equal to its
\* neighbour-name set; a call whose entry for a factor has another label set
\* fails and leaves that factor without the table, and fails with the
\* missing-axes error when that factor is the first it could not bind
C13_AxesMatchOrFail ==
    pgm # None
        => /\ \A i \in DOMAIN pgm._factors :
                  pgm._factors[i].data # None
                      => Range(pgm._factors[i].data.axes_labels)
                           = NeighborNames(pgm, pgm._factors[i])
           /\ last.op = "set_distributions"
                => \A i \in DOMAIN pgm._factors :
                       (/\ HasEntry(i)
                        /\ Range(Entry(i).axes_labels)
                             # NeighborNames(pgm, pgm._factors[i]))
                           => /\ last.err # NoError
                              /\ pgm._factors[i].data = None
                              /\ CameTo(i) => last.err = "ValueError: missing axes"

\* set_distributions was handed, for the second factor, a table with an axis
\* that is no neighbour and no neighbour without an axis, after a first
\* factor it bound
C13_Witness ==
    /\ last.op = "set_distributions"
    /\ Len(pgm._factors) = 2
    /\ pgm._factors[1].data # None
    /\ HasEntry(2)
    /\ NeighborNames(pgm, pgm._factors[2]) \subseteq Range(Entry(2).axes_labels)
    /\ Range(Entry(2).axes_labels) # NeighborNames(pgm, pgm._factors[2])

\* the size a name has where the mapping of the last call first mentions it,
\* in factor order and then axis order
FirstSize(name) ==
    LET i == CHOOSE j \in DOMAIN pgm._factors :
                 /\ \E k \in LabelledAxes(Entry(j)) : Entry(j).axes_labels[k] = name
                 /\ \A m \in 1..(j - 1) :
                        \A k \in LabelledAxes(Entry(m)) : Entry(m).axes_labels[k] # name
        k == CHOOSE n \in LabelledAxes(Entry(i)) :
                 /\ Entry(i).axes_labels[n] = name
                 /\ \A m \in 1..(n - 1) : Entry(i).axes_labels[m] # name
    IN  Entry(i).probs.shape[k]

\* C14: after set_distributions returned, a name has one size in all bound
\* tables; a call that comes to a factor whose table fits its neighbours but
\* gives a name another size than its first occurrence fails with the
\* wrong-size error and leaves that factor without the table
C14_OneSizePerName ==
    (pgm # None /\ last.op = "set_distributions")
        => /\ last.err = NoError
                => \A i, j \in DOMAIN pgm._factors :
                       \A k \in LabelledAxes(pgm._factors[i].data),
                          m \in LabelledAxes(pgm._factors[j].data) :
                           pgm._factors[i].data.axes_labels[k]
                               = pgm._factors[j].data.axes_labels[m]
                             => pgm._factors[i].data.probs.shape[k]
                                  = pgm._factors[j].data.probs.shape[m]
           /\ \A i \in DOMAIN pgm._factors :
                  (/\ CameTo(i)
                   /\ HasEntry(i)
                   /\ Range(Entry(i).axes_labels) = NeighborNames(pgm, pgm._factors[i])
                   /\ \E k \in LabelledAxes(Entry(i)) :
                          Entry(i).probs.shape[k] # FirstSize(Entry(i).axes_labels[k]))
                      => /\ last.err = "ValueError: wrong size"
                         /\ pgm._factors[i].data = None

\* set_distributions bound a first table and came to a second that fits its
\* factor's neighbours and gives a shared name another size
C14_Witness ==
    /\ last.op = "set_distributions"
    /\ Len(pgm._factors) = 2
    /\ pgm._factors[1].data # None
    /\ HasEntry(2)
    /\ Range(Entry(2).axes_labels) = NeighborNames(pgm, pgm._factors[2])
    /\ \E k \in LabelledAxes(Entry(2)) :
           Entry(2).probs.shape[k] # FirstSize(Entry(2).axes_labels[k])

\* set_distributions returned having bound two tables that share a name
C14_BoundWitness ==
    /\ last.op = "set_distributions"
    /\ last.err = NoError
    /\ Len(pgm._factors) = 2
    /\ Range(pgm._factors[1].data.axes_labels)
         \cap Range(pgm._factors[2].data.axes_labels) # {}

(***************************************************************************)
(* multiply alone, over pairs of tables                                    *)
(***************************************************************************)

\* the second arguments: one label each; vectors over a, b and c of fitting and
\* of other lengths, a column matrix over a, and numbers (rank 0) labelled a
\* and c
VectorLib ==
    { Distribution(NpArray(<<2>>, <<2, 5>>), <<a>>),
      Distribution(NpArray(<<3>>, <<1, 2, 3>>), <<a>>),
      Distribution(NpArray(<<2, 1>>, <<3, 1>>), <<a>>),
      Distribution(NpArray(<<3>>, <<0, 2, 7>>), <<b>>),
      Distribution(NpArray(<<2>>, <<1, 4>>), <<b>>),
      Distribution(NpArray(<<1>>, <<3>>), <<b>>),
      Distribution(NpArray(<<1>>, <<5>>), <<c>>),
      Distribution(NpArray(<<2>>, <<1, 2>>), <<c>>),
      Distribution(NpArray(<<>>, <<3>>), <<a>>),
      Distribution(NpArray(<<>>, <<2>>), <<c>>) }

\* two tables are constructed
MultiplyInit ==
    /\ model_string = <<>>
    /\ pgm = None
    /\ distributions = <<>>
    /\ messages = <<>>
    /\ runs = <<>>
    /\ \E p_v_given_h \in BindTensorLib, p_hi \in VectorLib :
           last = Call("Distribution", <<p_v_given_h, p_hi>>, NoError, None)

\* multiply(p_v_given_h, p_hi)
Multiply ==
    /\ last.op = "Distribution"
    /\ \E r \in {multiply(last.arg[1], last.arg[2])} :
           last' = Call("multiply", last.arg, r.err, r.val)
    /\ UNCHANGED <<model_string, pgm, distributions, messages, runs>>

MultiplyNext == Multiply

MultiplySpec == MultiplyInit /\ [][MultiplyNext]_vars

\* the axis of a table that carries a label (the tables have no label twice)
AxisOf(d, name) == CHOOSE k \in DOMAIN d.axes_labels : d.axes_labels[k] = name

\* the number of entries of an array
Size(array) == ProdSeq(array.shape)

\* p_hi is a number, or has as many entries as p_v_given_h has states on the
\* axis p_hi names
Fits(p_v_given_h, p_hi) ==
    /\ HasAxis(p_v_given_h, p_hi.axes_labels[1])
    /\ \/ p_hi.probs.shape = <<>>
       \/ Size(p_hi.probs)
            = p_v_given_h.probs.shape[AxisOf(p_v_given_h, p_hi.axes_labels[1])]

\* C15: multiply of a table by a fitting one-label table returns the labels
\* and shape of the first, each entry multiplied by the entry of the second at
\* the index's coordinate on the shared axis; when the label is not among the
\* axes or the lengths differ it raises and returns nothing
C15_MultiplyAlongSharedAxis ==
    last.op = "multiply"
        => IF Fits(last.arg[1], last.arg[2])
           THEN /\ last.err = NoError
                /\ last.ret.axes_labels = last.arg[1].axes_labels
                /\ last.ret.probs.shape = last.arg[1].probs.shape
                /\ \A idx \in Indices(last.arg[1].probs.shape) :
                       last.ret.probs.val[idx]
                         = last.arg[1].probs.val[idx]
                             * Ravel(last.arg[2].probs)[
                                 IF last.arg[2].probs.shape = <<>> THEN 1
                                 ELSE idx[AxisOf(last.arg[1],
                                                 last.arg[2].axes_labels[1])]]
           ELSE /\ last.err # NoError
                /\ last.ret = None

\* multiply returned the product of a matrix and a vector over its second axis
C15_Witness ==
    /\ last.op = "multiply"
    /\ last.err = NoError
    /\ Len(last.arg[1].probs.shape) = 2
    /\ last.arg[1].probs.shape[1] # last.arg[1].probs.shape[2]
    /\ last.arg[2].probs.shape # <<>>
    /\ last.arg[1].axes_labels[2] = last.arg[2].axes_labels[1]
    /\ \E idx \in Indices(last.ret.probs.shape) :
           last.ret.probs.val[idx] # last.arg[1].probs.val[idx]

(***************************************************************************)
(* The worked examples of the notebook.  Table entries are written in      *)
(* tenths (0.3 as 3): a normalised marginal is the same for a table and    *)
(* for a multiple of it, and is compared as an exact fraction.             *)
(***************************************************************************)

x1 == <<"x", "1">>

x2 == <<"x", "2">>

x3 == <<"x", "3">>

x4 == <<"x", "4">>

x5 == <<"x", "5">>

h1 == <<"h", "1">>

h2 == <<"h", "2">>

v1 == <<"v", "1">>

v2 == <<"v", "2">>

\* "p(x1,x3)p(x2,x3)p(x3,x4,x5)"
FactorGraphString ==
    <<"p", "(", "x", "1", ",", "x", "3", ")", "p", "(", "x", "2", ",", "x",
      "3", ")", "p", "(", "x", "3", ",", "x", "4", ",", "x", "5", ")">>

\* "p(h1)p(h2|h1)p(v1|h1)p(v2|h2)"
HiddenMarkovString ==
    <<"p", "(", "h", "1", ")", "p", "(", "h", "2", "|", "h", "1", ")", "p",
      "(", "v", "1", "|", "h", "1", ")", "p", "(", "v", "2", "|", "h", "2",
      ")">>

\* "p(x5|x4)p(x4|x3)p(x3|x2)p(x2|x1)p(x1)"
MarkovChainString ==
    <<"p", "(", "x", "5", "|", "x", "4", ")", "p", "(", "x", "4", "|", "x",
      "3", ")", "p", "(", "x", "3", "|", "x", "2", ")", "p", "(", "x", "2",
      "|", "x", "1", ")", "p", "(", "x", "1", ")">>

\* the same chain with its terms written from x1 to x5
MarkovChainForwardString ==
    <<"p", "(", "x", "1", ")", "p", "(", "x", "2", "|", "x", "1", ")", "p",
      "(", "x", "3", "|", "x", "2", ")", "p", "(", "x", "4", "|", "x", "3",
      ")", "p", "(", "x", "5", "|", "x", "4", ")">>

ScenarioStrings ==
    {FactorGraphString, HiddenMarkovString, MarkovChainString,
     MarkovChainForwardString}

\* the transition matrix of the chain, rows indexed by the next state
TransitionMatrix == <<7, 5, 0, 3, 3, 5, 0, 2, 5>>

\* the mapping each cell hands to set_distributions
ScenarioData(s) ==
    IF s = FactorGraphString
    THEN <<"p", "(", "x", "1", ",", "x", "3", ")">> :>
             Distribution(NpArray(<<2, 2>>, <<3, 2, 1, 4>>), <<x1, x3>>)
         @@ <<"p", "(", "x", "2", ",", "x", "3", ")">> :>
             Distribution(NpArray(<<2, 2>>, <<1, 5, 2, 2>>), <<x2, x3>>)
         @@ <<"p", "(", "x", "3", ",", "x", "4", ",", "x", "5", ")">> :>
             Distribution(NpArray(<<2, 2, 2>>, <<1, 0, 1, 1, 1, 0, 2, 4>>),
                          <<x3, x4, x5>>)
    ELSE IF s = HiddenMarkovString
    THEN <<"p", "(", "h", "1", ")">> :>
             Distribution(NpArray(<<2, 1>>, <<2, 8>>), <<h1>>)
         @@ <<"p", "(", "h", "2", "|", "h", "1", ")">> :>
             Distribution(NpArray(<<2, 2>>, <<5, 2, 5, 8>>), <<h2, h1>>)
         @@ <<"p", "(", "v", "1", "|", "h", "1", ")">> :>
             Distribution(NpArray(<<2, 2>>, <<6, 1, 4, 9>>), <<v1, h1>>)
         @@ <<"p", "(", "v", "2", "|", "h", "2", ")">> :>
             Distribution(NpArray(<<2, 2>>, <<6, 1, 4, 9>>), <<v2, h2>>)
    ELSE <<"p", "(", "x", "5", "|", "x", "4", ")">> :>
             Distribution(NpArray(<<3, 3>>, TransitionMatrix), <<x5, x4>>)
         @@ <<"p", "(", "x", "4", "|", "x", "3", ")">> :>
             Distribution(NpArray(<<3, 3>>, TransitionMatrix), <<x4, x3>>)
         @@ <<"p", "(", "x", "3", "|", "x", "2", ")">> :>
             Distribution(NpArray(<<3, 3>>, TransitionMatrix), <<x3, x2>>)
         @@ <<"p", "(", "x", "2", "|", "x", "1", ")">> :>
             Distribution(NpArray(<<3, 3>>, TransitionMatrix), <<x2, x1>>)
         @@ <<"p", "(", "x", "1", ")">> :>
             Distribution(NpArray(<<3>>, <<1, 0, 0>>), <<x1>>)

ScenarioInit ==
    /\ model_string \in ScenarioStrings
    /\ pgm = None
    /\ distributions = <<>>
    /\ messages = <<>>
    /\ runs = <<>>
    /\ last = Call("Messages", None, NoError, None)

ScenarioNext ==
    \/ FromString
    \/ pgm # None /\ SetDistributions(ScenarioData(model_string))
    \/ pgm # None /\ \E v \in VariableRefs(pgm) : Marginal(v)
    \/ BeliefPropagation

ScenarioSpec == ScenarioInit /\ [][ScenarioNext]_vars

\* a fraction is within 1e-4 of a number given in ten-thousandths
Near(q, tenthousandths) ==
    /\ q[2] > 0
    /\ 10000 * q[1] - tenthousandths * q[2] <= q[2]
    /\ tenthousandths * q[2] - 10000 * q[1] <= q[2]

\* two fractions are in the ratio n : m
InRatio(q, r, n, m) == q[1] * r[2] * m = r[1] * q[2] * n

\* the marginal of a variable the last call returned: the value of marginal of
\* that variable, or its entry in the mapping of belief_propagation
Returned(name) ==
    IF last.op = "belief_propagation" THEN Ravel(last.ret[name])
    ELSE Ravel(last.ret)

\* the last call was asked for the marginal of the variable
AskedFor(name) ==
    \/ last.op = "belief_propagation"
    \/ last.op = "marginal" /\ last.arg = VariableRef(name)

\* the cache holds one message per edge: those a single marginal asks for
OneMessagePerEdge == Cardinality(DOMAIN messages) = NumEdges(pgm)

\* C16: on p(x1,x3)p(x2,x3)p(x3,x4,x5) with the tables of the cell, the
\* marginal of x1 from marginal(x1) and from belief_propagation is
\* [0.3788, 0.6212] within 1e-4, in the ratio 0.125 : 0.205
C16_FactorGraphMarginal ==
    (model_string = FactorGraphString /\ AskedFor(x1))
        => /\ last.err = NoError
           /\ Len(Returned(x1)) = 2
           /\ Near(Returned(x1)[1], 3788)
           /\ Near(Returned(x1)[2], 6212)
           /\ InRatio(Returned(x1)[1], Returned(x1)[2], 125, 205)

\* marginal(x1) returned on that graph from the 7 messages directed to x1
C16_Witness ==
    /\ model_string = FactorGraphString
    /\ last.op = "marginal"
    /\ last.arg = VariableRef(x1)
    /\ last.err = NoError
    /\ OneMessagePerEdge

\* C17: on p(h1)p(h2|h1)p(v1|h1)p(v2|h2) with the tables of the cell,
\* marginal(v1) is [0.2, 0.8]
C17_HiddenMarkovMarginal ==
    (model_string = HiddenMarkovString
       /\ last.op = "marginal" /\ last.arg = VariableRef(v1))
        => /\ last.err = NoError
           /\ Ravel(last.ret) = <<<<1, 5>>, <<4, 5>>>>

\* marginal(v1) returned on that graph from the 7 messages directed to v1
C17_Witness ==
    /\ model_string = HiddenMarkovString
    /\ last.op = "marginal"
    /\ last.arg = VariableRef(v1)
    /\ last.err = NoError
    /\ OneMessagePerEdge

\* M x for a 3 x 3 matrix in row-major order
MatVec(M, x) ==
    [i \in 1..3 |-> SumFn([j \in 1..3 |-> M[3 * (i - 1) + j] * x[j]])]

\* M applied four times to p(x1)
FourSteps ==
    MatVec(TransitionMatrix,
      MatVec(TransitionMatrix,
        MatVec(TransitionMatrix,
          MatVec(TransitionMatrix, <<1, 0, 0>>))))

\* C18: on the chain of five variables with the same column-stochastic M in
\* every transition and p(x1) = [1, 0, 0], marginal(x5) is M applied four
\* times to p(x1)
C18_MarkovChainMarginal ==
    (model_string \in {MarkovChainString, MarkovChainForwardString}
       /\ last.op = "marginal" /\ last.arg = VariableRef(x5))
        => /\ last.err = NoError
           /\ Ravel(last.ret)
                = [i \in 1..3 |-> Div(FourSteps[i], SumFn(FourSteps))]

\* marginal(x5) returned on the chain as the cell writes it, from the 9
\* messages directed to x5
C18_Witness ==
    /\ model_string = MarkovChainString
    /\ last.op = "marginal"
    /\ last.arg = VariableRef(x5)
    /\ last.err = NoError
    /\ OneMessagePerEdge
    /\ SumFn(FourSteps) = 10000

(***************************************************************************)
(* The two message formulas, read off the cache                            *)
(***************************************************************************)

\* the cache key of a message from one node to another
Key(G, sender, receiver) == <<Node(G, sender).name, Node(G, receiver).name>>

\* the neighbouring factors of a variable other than f, as nodes
OtherFactors(G, v, f) == SelectSeq(Node(G, v).neighbors, LAMBDA g : g # f)

\* the scalar 1
One == Array(<<>>, [idx \in {<<>>} |-> 1])

\* the elementwise product of the cached messages (g, v) over the factors g
ProductOfCached(G, cache, gs, v) ==
    IF gs = <<>> THEN One
    ELSE Array(cache[Key(G, gs[1], v)].shape,
               [idx \in Indices(cache[Key(G, gs[1], v)].shape) |->
                   ProdSeq([k \in DOMAIN gs |-> cache[Key(G, gs[k], v)].val[idx]])])

\* the cached message (v, f) is the product of the cached messages (g, v) of
\* the other neighbouring factors g of v
VariableMessageIsProduct(G, cache, v, f) ==
    /\ \A k \in DOMAIN OtherFactors(G, v, f) :
           Key(G, OtherFactors(G, v, f)[k], v) \in DOMAIN cache
    /\ cache[Key(G, v, f)] = ProductOfCached(G, cache, OtherFactors(G, v, f), v)

\* C19: every cached message (v, f) is the elementwise product of the messages
\* (g, v) of the neighbouring factors g of v other than f, and the scalar 1
\* when there is none
C19_VariableToFactorMessage ==
    pgm # None
        => \A e \in Edges(pgm) :
               Key(pgm, e[1], e[2]) \in DOMAIN messages
                   => VariableMessageIsProduct(pgm, messages, e[1], e[2])

\* no two factors of the graph carry the same name
DistinctFactorNames(G) ==
    \A i, j \in DOMAIN G._factors : G._factors[i].name = G._factors[j].name => i = j

\* where factor names are distinct, every cached message (v, f) is that product
VariableToFactorMessageOnDistinctNames ==
    (pgm # None /\ DistinctFactorNames(pgm))
        => \A e \in Edges(pgm) :
               Key(pgm, e[1], e[2]) \in DOMAIN messages
                   => VariableMessageIsProduct(pgm, messages, e[1], e[2])

\* the names of the neighbouring variables of a factor other than v
OtherVariables(G, f, v) == NeighborNames(G, Node(G, f)) \ {Node(G, v).name}

\* the entry of a cached message at a state, a scalar being the same for all
At(message, x) == IF message.shape = <<>> THEN message.val[<<>>] ELSE Ravel(message)[x]

\* f's table with the cached messages (u, f) of the other variables u
\* multiplied in along their axes, summed over every axis but v's
SumProduct(G, cache, f, v) ==
    LET d    == Node(G, f).data
        axis == AxisOf(d, Node(G, v).name)
    IN  Array(<<d.probs.shape[axis]>>,
              [x \in Indices(<<d.probs.shape[axis]>>) |->
                  SumFn([idx \in {i \in Indices(d.probs.shape) : i[axis] = x[1]} |->
                           d.probs.val[idx]
                             * ProdSeq([k \in DOMAIN Ascending(DOMAIN d.axes_labels
                                                                  \ {axis}) |->
                                   At(cache[<<d.axes_labels[
                                                 Ascending(DOMAIN d.axes_labels
                                                             \ {axis})[k]],
                                              Node(G, f).name>>],
                                      idx[Ascending(DOMAIN d.axes_labels
                                                      \ {axis})[k]])])])])

\* the cached messages (u, f) of the other variables are there
OthersCached(G, cache, f, v) ==
    \A u \in OtherVariables(G, f, v) : <<u, Node(G, f).name>> \in DOMAIN cache

\* C20: every cached message (f, v) is f's table with the messages (u, f) of
\* the other neighbouring variables multiplied in and every axis but v's summed
\* out: a vector over v's states, as long as v has states
C20_FactorToVariableMessage ==
    pgm # None
        => \A e \in Edges(pgm) :
               Key(pgm, e[2], e[1]) \in DOMAIN messages
                   => /\ OthersCached(pgm, messages, e[2], e[1])
                      /\ messages[Key(pgm, e[2], e[1])]
                           = SumProduct(pgm, messages, e[2], e[1])
                      /\ messages[Key(pgm, e[2], e[1])].shape
                           = <<Card(pgm, e[1].key)>>

\* every cached message (f, v) has the entries of that sum of products
FactorToVariableMessageEntries ==
    pgm # None
        => \A e \in Edges(pgm) :
               Key(pgm, e[2], e[1]) \in DOMAIN messages
                   => /\ OthersCached(pgm, messages, e[2], e[1])
                      /\ Ravel(messages[Key(pgm, e[2], e[1])])
                           = Ravel(SumProduct(pgm, messages, e[2], e[1]))

\* ... and is a vector over v's states when v has more than one state
FactorToVariableMessageOnSeveralStates ==
    pgm # None
        => \A e \in Edges(pgm) :
               (/\ Key(pgm, e[2], e[1]) \in DOMAIN messages
                /\ Card(pgm, e[1].key) > 1)
                   => messages[Key(pgm, e[2], e[1])]
                        = SumProduct(pgm, messages, e[2], e[1])

(***************************************************************************)
(* The order of the requests                                               *)
(***************************************************************************)

\* the engine state of a Messages instance just constructed
Fresh == [Enter EXCEPT !.messages = <<>>]

\* the cache a fresh instance holds after forward then backward, and after
\* backward then forward
ForwardBackward(G) == backward(G, forward(G, Fresh).st).st.messages

BackwardForward(G) == forward(G, backward(G, Fresh).st).st.messages

\* every directed adjacent pair, as a cache key
DirectedPairs(G) ==
    {Key(G, e[1], e[2]) : e \in Edges(G)} \cup {Key(G, e[2], e[1]) : e \in Edges(G)}

\* C21: on a tree the two sweep orders fill the same cache, and whatever
\* requests led to the present cache, every key it holds has the value the
\* sweeps give it
C21_OrderIndependent ==
    (IsTree(pgm) /\ Ready)
        => \E swept \in {ForwardBackward(pgm)} :
               /\ swept = BackwardForward(pgm)
               /\ \A k \in DOMAIN messages :
                      k \in DOMAIN swept /\ messages[k] = swept[k]

\* a tree of four edges whose cache marginal queries alone have filled
C21_Witness ==
    /\ IsTree(pgm)
    /\ NumEdges(pgm) = 4
    /\ last.op = "marginal"
    /\ last.err = NoError
    /\ DOMAIN messages = DirectedPairs(pgm)

(***************************************************************************)
(* Termination and the number of body runs                                 *)
(***************************************************************************)

\* a call made from engine state st returns: its recursion neither repeats a
\* request that is still being computed nor raises
AllReturn(G, st) ==
    /\ \A v \in VariableRefs(G) : marginal(G, st, v).st.err = NoError
    /\ forward(G, st).st.err = NoError
    /\ backward(G, st).st.err = NoError
    /\ belief_propagation(G, st).st.err = NoError

\* the body runs so far, all keys together
TotalRuns == SumFn(runs)

\* on a tree every call that could be made next returns
EveryCallReturnsOnTrees == (IsTree(pgm) /\ Ready) => AllReturn(pgm, Enter)

\* C22: on a tree every call of marginal, forward, backward and
\* belief_propagation has returned, and since the instance was constructed
\* the body computing a message has run at most once for each directed
\* adjacent pair, at most twice the number of edges in all
C22_TerminatesAndRunsOnce ==
    (IsTree(pgm) /\ Ready)
        => /\ last.err = NoError
           /\ \A k \in DOMAIN runs : k \in DirectedPairs(pgm) /\ runs[k] <= 1
           /\ TotalRuns <= 2 * NumEdges(pgm)

\* a tree of three edges after a backward sweep, every body run once
C22_Witness ==
    /\ IsTree(pgm)
    /\ NumEdges(pgm) = 3
    /\ last.op = "backward"
    /\ last.err = NoError
    /\ TotalRuns = 6

(***************************************************************************)
(* Graphs with a cycle                                                     *)
(***************************************************************************)

\* how often a variable stands in the neighbour list of a factor
Multiplicity(G, e) ==
    Cardinality({k \in DOMAIN Node(G, e[2]).neighbors :
                    Node(G, e[2]).neighbors[k] = e[1]})

\* the variables joined to a variable of S by a chain of edges other than e
RECURSIVE ReachWithout(_, _, _)
ReachWithout(G, S, e) ==
    LET T == S \cup {w \in VariableRefs(G) :
                       \E u \in S, g \in FactorRefs(G) :
                           /\ <<u, g>> \in Edges(G) \ {e}
                           /\ <<w, g>> \in Edges(G) \ {e}}
    IN  IF T = S THEN S ELSE ReachWithout(G, T, e)

\* the edge lies on a cycle: it is doubled, or its ends are joined without it
OnCycle(G, e) ==
    \/ Multiplicity(G, e) >= 2
    \/ \E u \in ReachWithout(G, {e[1]}, e) : <<u, e[2]>> \in Edges(G) \ {e}

\* a request for either message of the edge, made now, ends in Python's
\* RecursionError, and neither message is cached
NeverCompletes(G, st, e) ==
    /\ variable_to_factor_messages(G, st, e[1], e[2]).st.err = "RecursionError"
    /\ factor_to_variable_message(G, st, e[2], e[1]).st.err = "RecursionError"
    /\ Key(G, e[1], e[2]) \notin DOMAIN st.messages
    /\ Key(G, e[2], e[1]) \notin DOMAIN st.messages

\* C23: on a graph with a cycle, a request for a message on the cycle comes
\* back to the same uncached pair before anything is written for it and never
\* completes normally; no error about the cycle is raised
C23_CycleNeverCompletes ==
    Ready => \A e \in Edges(pgm) : OnCycle(pgm, e) => NeverCompletes(pgm, Enter, e)

\* no variable stands twice in a neighbour list
SimpleEdges(G) == \A e \in Edges(G) : Multiplicity(G, e) = 1

\* ... which holds where factor names are distinct and no edge is doubled
CycleNeverCompletesOnProperGraphs ==
    (Ready /\ DistinctFactorNames(pgm) /\ SimpleEdges(pgm))
        => \A e \in Edges(pgm) : OnCycle(pgm, e) => NeverCompletes(pgm, Enter, e)

\* a cycle through two factors, alone, with a factor hanging off it, and with
\* a branch hanging off it
CycleStrings ==
    { <<"p", "(", "a", ",", "b", ")", "p", "(", "b", "|", "a", ")">>,
      <<"p", "(", "a", ")", "p", "(", "a", ",", "b", ")", "p", "(", "b", "|", "a", ")">>,
      <<"p", "(", "a", ",", "b", ")", "p", "(", "b", "|", "a", ")",
        "p", "(", "c", "|", "b", ")">> }

CycleInit ==
    /\ model_string \in CycleStrings
    /\ pgm = None
    /\ distributions = <<>>
    /\ messages = <<>>
    /\ runs = <<>>
    /\ last = Call("Messages", None, NoError, None)

CycleSpec == CycleInit /\ [][Next]_vars

\* the calls of a session on a graph with a cycle raise nothing but
\* RecursionError
OnlyRecursionError == last.err \in {NoError, "RecursionError"}

\* a request on the cycle was made and ended in RecursionError
CycleRequested ==
    /\ Ready
    /\ last.op = "factor_to_variable_message"
    /\ OnCycle(pgm, <<last.arg[2], last.arg[1]>>)
    /\ last.err = "RecursionError"

(***************************************************************************)
(* The graph under the engine                                              *)
(***************************************************************************)

\* the operations of Messages
MessagesOps ==
    {"marginal", "variable_to_factor_messages", "factor_to_variable_message",
     "forward", "backward", "belief_propagation"}

\* C24: no operation of Messages modifies the graph: the bound tables and the
\* neighbour lists are after the operation what they were before it
C24_GraphUnmodified ==
    [][last'.op \in MessagesOps => pgm' = pgm]_vars

\* a message out of a factor of two variables was computed: the message of
\* the other variable was multiplied into a table that starts as the
\* factor's own
C24_Witness ==
    /\ Ready
    /\ last.op \in MessagesOps
    /\ last.err = NoError
    /\ \E e \in Edges(pgm) :
           /\ Len(Node(pgm, e[2]).neighbors) = 2
           /\ SimpleEdges(pgm)
           /\ Key(pgm, e[2], e[1]) \in DOMAIN messages

(***************************************************************************)
(* Laziness                                                                *)
(***************************************************************************)

\* the key of the message on an edge of a tree that is directed toward v:
\* out of the factor when v lies on the variable's side of the edge, into the
\* factor otherwise
KeyToward(G, e, v) ==
    IF v \in ReachWithout(G, {e[1]}, e)
    THEN Key(G, e[2], e[1])
    ELSE Key(G, e[1], e[2])

\* a marginal query that found the cache empty has just returned
FirstMarginal ==
    /\ messages = <<>>
    /\ last'.op = "marginal"
    /\ last'.err = NoError

\* the cache holds the messages toward v and no other, one entry for each edge
LazilyFilled(G, cache, v) ==
    /\ DOMAIN cache = {KeyToward(G, e, v) : e \in Edges(G)}
    /\ Cardinality(DOMAIN cache) = NumEdges(G)

\* C25: a single marginal(v) on a fresh instance over a tree leaves exactly
\* one entry for each edge, the message directed toward v, and none directed
\* away from v
C25_LazyFill ==
    [][(FirstMarginal /\ IsTree(pgm)) => LazilyFilled(pgm, messages', last'.arg)]_vars

\* ... which holds where factor names are distinct
LazyFillOnDistinctNames ==
    [][(FirstMarginal /\ IsTree(pgm) /\ DistinctFactorNames(pgm))
          => LazilyFilled(pgm, messages', last'.arg)]_vars

\* the hidden Markov graph queried at v1 holds 7 entries
SevenEntries ==
    [][(/\ FirstMarginal
        /\ model_string = HiddenMarkovString
        /\ last'.arg = VariableRef(v1))
          => Cardinality(DOMAIN messages') = 7 /\ NumEdges(pgm) = 7]_vars

SevenEntriesReached ==
    /\ model_string = HiddenMarkovString
    /\ last.op = "marginal"
    /\ last.arg = VariableRef(v1)
    /\ Cardinality(DOMAIN messages) = 7

(***************************************************************************)
(* One sweep is enough                                                     *)
(***************************************************************************)

\* every directed adjacent pair is cached
Full(G, cache) == DirectedPairs(G) \subseteq DOMAIN cache

\* C26: forward alone, on a fresh instance over a tree, caches every directed
\* adjacent pair in both directions; a backward or a marginal after that
\* leaves the cache as it is
C26_ForwardFillsCache ==
    [][/\ (IsTree(pgm) /\ messages = <<>> /\ last'.op = "forward")
            => DOMAIN messages' = DirectedPairs(pgm)
       /\ (IsTree(pgm) /\ Full(pgm, messages)
             /\ last'.op \in {"backward", "marginal"})
            => messages' = messages /\ last'.err = NoError]_vars

\* forward has just filled the cache of a tree of four edges
C26_Witness ==
    /\ IsTree(pgm)
    /\ NumEdges(pgm) = 4
    /\ last.op = "forward"
    /\ last.err = NoError
    /\ DOMAIN messages = DirectedPairs(pgm)
    /\ \A k \in DOMAIN messages : runs[k] = 1

(***************************************************************************)
(* Binding again: a session in which set_distributions is called more than *)
(* once, with mappings that may not fit                                    *)
(***************************************************************************)

\* the most calls of set_distributions in a session
MaxBindings == 2

RebindStrings ==
    { <<"p", "(", "a", ")", "p", "(", "a", ",", "b", ")">>,
      <<"p", "(", "a", ",", "b", ")", "p", "(", "c", "|", "b", ")">> }

RebindInit ==
    /\ model_string \in RebindStrings
    /\ pgm = None
    /\ distributions = <<>>
    /\ messages = <<>>
    /\ runs = <<>>
    /\ last = Call("Messages", None, NoError, None)

\* pgm.set_distributions(data) on a graph that was handed tables before
SetDistributionsAgain(data) ==
    /\ pgm # None
    /\ distributions # <<>>
    /\ Len(distributions) < MaxBindings
    /\ distributions' = Append(distributions, data)
    /\ LET r == set_distributions(pgm, data)
       IN  /\ pgm' = r.val
           /\ last' = Call("set_distributions", data, r.err, None)
    /\ UNCHANGED <<model_string, messages, runs>>

RebindNext ==
    \/ FromString
    \/ pgm # None /\ distributions = <<>>
         /\ \E data \in DataChoices(pgm) : SetDistributions(data)
    \/ pgm # None /\ distributions # <<>> /\ Len(distributions) < MaxBindings
         /\ \E data \in BindChoices(pgm) : SetDistributionsAgain(data)
    \/ pgm # None /\ \E v \in VariableRefs(pgm) : Marginal(v)
    \/ Forward

RebindSpec == RebindInit /\ [][RebindNext]_vars

\* C27: binding other tables does not invalidate the cache: a marginal(v)
\* asked afterwards keeps every key the cache held with the value it had, and
\* returns the normalised product of the cached messages into v, those that
\* were cached under the old tables included
C27_RebindingKeepsCache ==
    [][/\ last'.op = "set_distributions" => messages' = messages
       /\ last'.op = "marginal"
            => /\ \A k \in DOMAIN messages :
                      k \in DOMAIN messages' /\ messages'[k] = messages[k]
               /\ last'.err = NoError
                    => Ravel(last'.ret)
                         = CachedMarginal(pgm, messages', last'.arg.key)
               /\ (last'.err = NoError
                     /\ IncomingCached(pgm, messages, last'.arg.key))
                    => Ravel(last'.ret)
                         = CachedMarginal(pgm, messages, last'.arg.key)]_vars

\* the tables of the graph are those of the second of two different mappings,
\* and the marginal just returned is not the marginal they define
C27_Witness ==
    /\ last.op = "marginal"
    /\ last.err = NoError
    /\ Len(distributions) = 2
    /\ distributions[1] # distributions[2]
    /\ \A i \in DOMAIN pgm._factors :
           /\ pgm._factors[i].name \in DOMAIN distributions[2]
           /\ pgm._factors[i].data = distributions[2][pgm._factors[i].name]
           /\ Len(pgm._factors[i].data.probs.shape)
                = Len(pgm._factors[i].data.axes_labels)
    /\ Mass(pgm) > 0
    /\ IsTree(pgm)
    /\ \A x \in DOMAIN Ravel(last.ret) : IsProbability(Ravel(last.ret)[x])
    /\ ~IsExactMarginal(pgm, last.arg.key, last.ret)

\* the table a mapping holds for factor i
TableFor(G, data, i) == data[G._factors[i].name]

\* axis k of the table for factor i gives its name another size than an
\* earlier mention of the name does: one in the table of a factor before i,
\* or on an axis before k of the same table
SizeClash(G, data, i, k) ==
    \/ \E j \in {n \in 1..(i - 1) : G._factors[n].name \in DOMAIN data} :
         \E m \in LabelledAxes(TableFor(G, data, j)) :
           /\ TableFor(G, data, j).axes_labels[m] = TableFor(G, data, i).axes_labels[k]
           /\ TableFor(G, data, j).probs.shape[m] # TableFor(G, data, i).probs.shape[k]
    \/ \E m \in LabelledAxes(TableFor(G, data, i)) :
           /\ m < k
           /\ TableFor(G, data, i).axes_labels[m] = TableFor(G, data, i).axes_labels[k]
           /\ TableFor(G, data, i).probs.shape[m] # TableFor(G, data, i).probs.shape[k]

\* factor i cannot be bound from the mapping: no entry, other axes than
\* neighbours, or a size that clashes
Unbindable(G, data, i) ==
    \/ G._factors[i].name \notin DOMAIN data
    \/ Range(TableFor(G, data, i).axes_labels) # NeighborNames(G, G._factors[i])
    \/ \E k \in LabelledAxes(TableFor(G, data, i)) : SizeClash(G, data, i, k)

\* the first factor, in factor order, that cannot be bound
FirstUnbindable(G, data) ==
    CHOOSE i \in DOMAIN G._factors :
        /\ Unbindable(G, data, i)
        /\ \A j \in 1..(i - 1) : ~Unbindable(G, data, j)

\* C28: set_distributions is not atomic: when it fails at a factor, every
\* factor before that one carries its new table, and that factor and every
\* later one carry what they carried before the call
C28_FailedBindingIsPartial ==
    [][last'.op = "set_distributions"
         => /\ last'.err # NoError
                 <=> \E i \in DOMAIN pgm._factors : Unbindable(pgm, last'.arg, i)
            /\ last'.err # NoError
                 => \A j \in DOMAIN pgm._factors :
                        pgm'._factors[j].data
                          = IF j < FirstUnbindable(pgm, last'.arg)
                            THEN TableFor(pgm, last'.arg, j)
                            ELSE pgm._factors[j].data]_vars

\* a second call bound another table to the first factor and failed at the
\* second, which still carries the table of the first call though the mapping
\* holds another for it
C28_Witness ==
    /\ last.op = "set_distributions"
    /\ last.err # NoError
    /\ Len(distributions) = 2
    /\ Len(pgm._factors) = 2
    /\ pgm._factors[1].name \in DOMAIN distributions[2]
    /\ pgm._factors[1].data = distributions[2][pgm._factors[1].name]
    /\ pgm._factors[1].data # distributions[1][pgm._factors[1].name]
    /\ pgm._factors[2].name \in DOMAIN distributions[2]
    /\ pgm._factors[2].data = distributions[1][pgm._factors[2].name]
    /\ pgm._factors[2].data # distributions[2][pgm._factors[2].name]

(***************************************************************************)
(* The cache between calls                                                 *)
(***************************************************************************)

\* every key is a directed adjacent pair, and with a message the cache holds
\* the messages it was computed from
Closed(G, cache) ==
    /\ DOMAIN cache \subseteq DirectedPairs(G)
    /\ \A e \in Edges(G) :
           /\ Key(G, e[1], e[2]) \in DOMAIN cache
                => \A k \in DOMAIN OtherFactors(G, e[1], e[2]) :
                       Key(G, OtherFactors(G, e[1], e[2])[k], e[1]) \in DOMAIN cache
           /\ Key(G, e[2], e[1]) \in DOMAIN cache
                => OthersCached(G, cache, e[2], e[1])

\* C29: between any two calls the cache holds only directed adjacent pairs
\* and is closed under dependencies: with (v, f) it holds (g, v) for every
\* other neighbouring factor g of v, with (f, v) it holds (u, f) for every
\* other neighbouring variable u of f
C29_CacheClosed == pgm # None => Closed(pgm, messages)

\* ... which holds where factor names are distinct
CacheClosedOnDistinctNames ==
    (pgm # None /\ DistinctFactorNames(pgm)) => Closed(pgm, messages)

(***************************************************************************)
(* Factor names as keys                                                    *)
(***************************************************************************)

\* the edges whose message into the factor, or out of it, has a given key
EdgesInto(G, k) == {e \in Edges(G) : Key(G, e[1], e[2]) = k}

EdgesOutOf(G, k) == {e \in Edges(G) : Key(G, e[2], e[1]) = k}

\* the neighbouring factors of v that the comparison by name with f leaves out
LeftOut(G, v, f) ==
    SelectSeq(Node(G, v).neighbors,
              LAMBDA neighbor_factor : Node(G, neighbor_factor).name = Node(G, f).name)

\* C30: in every graph from_string builds, distinct Factor nodes have distinct
\* names, so that a cache key denotes one directed edge and leaving out the
\* neighbours named like f leaves out one factor, f itself
C30_FactorNamesDistinct ==
    pgm # None
        => /\ DistinctFactorNames(pgm)
           /\ \A e \in Edges(pgm) :
                  /\ EdgesInto(pgm, Key(pgm, e[1], e[2])) = {e}
                  /\ EdgesOutOf(pgm, Key(pgm, e[2], e[1])) = {e}
                  /\ Multiplicity(pgm, e) = 1 => LeftOut(pgm, e[1], e[2]) = <<e[2]>>

\* the names of the factors are the terms, repeated terms included
FactorNamesAreTerms ==
    pgm # None => FactorNameList(pgm) = TermsOf(model_string)

\* ... and where no term is repeated the names are distinct
FactorNamesDistinctOnDistinctTerms ==
    (pgm # None /\ NoRepeats(TermsOf(model_string)))
        => /\ DistinctFactorNames(pgm)
           /\ \A e \in Edges(pgm) :
                  /\ EdgesInto(pgm, Key(pgm, e[1], e[2])) = {e}
                  /\ EdgesOutOf(pgm, Key(pgm, e[2], e[1])) = {e}
                  /\ Multiplicity(pgm, e) = 1 => LeftOut(pgm, e[1], e[2]) = <<e[2]>>

=============================================================================
